---- MODULE Spec2Model ----
(***************************************************************************)
(* Model of src/app.py: a Flask application that bridges a mobile app and  *)
(* an ESP32 through four Redis keys.  Every Redis command of a handler is  *)
(* one atomic step; requests handled concurrently interleave at those      *)
(* steps.  A handler's return is taken in the same step as its last Redis  *)
(* command (what follows that command touches no shared state).  Any Redis *)
(* command may raise (the server is unreachable at that moment).           *)
(***************************************************************************)
EXTENDS Integers, Sequences, FiniteSets, TLC

\* ---- bounds of the model ------------------------------------------------
NumWorkers == 2          \* requests that can be in flight at once
MaxTime == 61            \* the clock stops advancing past this instant

\* ---- program constants (src/app.py:45-49) -------------------------------
LED1_STATE_KEY == "esp32:led1_state"
LED2_STATE_KEY == "esp32:led2_state"
HEARTBEAT_KEY == "esp32:last_heartbeat"
RESET_COMMAND_KEY == "esp32:reset_command"
HEARTBEAT_TIMEOUT_SECONDS == 60

Keys == {LED1_STATE_KEY, LED2_STATE_KEY, HEARTBEAT_KEY, RESET_COMMAND_KEY}
Workers == 1..NumWorkers

\* Python's None: what r.get returns for an absent key, and the value of r
\* when the connection could not be made at start-up.
None == "None"

\* Inputs of POST /led/<action>/<int:numero> that reach control_led.
Actions == {"on", "off", "toggle"}
Numeros == 0..3

\* Amounts by which the wall clock advances between two steps.
Deltas == {HEARTBEAT_TIMEOUT_SECONDS - 1, HEARTBEAT_TIMEOUT_SECONDS,
           HEARTBEAT_TIMEOUT_SECONDS + 1}

VARIABLES
  store,          \* the Redis database: key -> stored string, or None
  running,        \* whether the Flask process is up (module imported)
  r,              \* the module-level client: "Redis", or None
  clock,          \* datetime.now(), in seconds
  pc,             \* per request slot: where its handler stands
  led1_state,     \* handler local (heartbeat, status)
  led2_state,     \* handler local (heartbeat, status)
  reset_command,  \* handler local (heartbeat)
  key_to_set,     \* handler local (control_led)
  new_state,      \* handler local (control_led)
  resp,           \* what the step just taken sent: a response, StartUpLogged
                  \* after a completed start-up, NoResp otherwise
  \* ---- history variables (observers, never read by the program) ----
  observe,        \* which observer records history in this run; never changes
  initialized,    \* a start-up has run lines 52-60 to the end
  hbTime,         \* instant of the last recorded heartbeat, -1 if none
  undelivered,    \* an arm was written and no heartbeat has returned it yet
  delivered,      \* heartbeats that returned reset_wifi = true since the last arm
  seq,            \* so far: heartbeats one at a time, no arm over a pending one
  owed,           \* Armed: an arm returned success and no heartbeat started
                  \* since; a slot: the first heartbeat started since; else Nobody
  settled,        \* per LED: value written by the last successful control with no
                  \* other control of that LED in flight, -1 if none or one started since
  fresh,          \* per slot: the LEDs that were settled when its request started
                  \* and for which no control has started since
  seen,           \* per slot: the (led1, led2) pairs the store has held since its
                  \* status or heartbeat request started
  wrote,          \* per slot: the keys its request has written so far
  ops,            \* per slot: Redis commands its request has sent so far
  issued          \* Redis commands sent by the request answered in the step just
                  \* taken, 0 when the step answered none

vars == <<observe, store, running, r, clock, pc, led1_state, led2_state, reset_command,
          key_to_set, new_state, resp, initialized, hbTime, undelivered,
          delivered, seq, owed, settled, fresh, seen, wrote, ops, issued>>

progVars == <<store, running, r, clock>>
localVars == <<led1_state, led2_state, reset_command, key_to_set, new_state>>
histGlobal == <<observe, initialized, hbTime, undelivered, delivered, seq,
                owed, settled>>
histVars == <<histGlobal, fresh, seen>>

\* The handler of slot w sends one more Redis command, a get, and goes on.
Command(w) ==
  /\ ops' = [ops EXCEPT ![w] = ops[w] + 1]
  /\ issued' = 0
  /\ UNCHANGED wrote

\* The handler of slot w sends one more Redis command, a set of the key, and
\* goes on.
WriteCommand(w, key) ==
  /\ ops' = [ops EXCEPT ![w] = ops[w] + 1]
  /\ issued' = 0
  /\ wrote' = [wrote EXCEPT ![w] = wrote[w] \cup {key}]

\* The step sends no Redis command and ends no handler.
NoCommand ==
  /\ issued' = 0
  /\ UNCHANGED <<ops, wrote>>

\* ---- Redis client with decode_responses=True ----------------------------
\* r.set(key, value): Redis stores the value's string form.
redis_set(s, key, value) == [s EXCEPT ![key] = value]

\* r.get(key): the stored string, or None.
redis_get(s, key) == s[key]

\* str() of a Python int, as redis-py encodes it before sending.
Str(n) == ToString(n)

\* int(state) on a decoded response.
int(s) == CASE s = "0" -> 0 [] s = "1" -> 1

\* ---- datetime ------------------------------------------------------------
D2(n) == IF n < 10 THEN "0" \o ToString(n) ELSE ToString(n)

\* datetime.isoformat() of the instant t seconds after 2024-01-01T00:00:00.
isoformat(t) ==
  "2024-01-01T" \o D2(t \div 3600) \o ":" \o D2((t % 3600) \div 60) \o ":" \o D2(t % 60)

\* datetime.fromisoformat(s) raises ValueError unless s denotes an instant.
Instants == 0..(MaxTime + HEARTBEAT_TIMEOUT_SECONDS)
parses(s) == \E t \in Instants : isoformat(t) = s

\* datetime.fromisoformat(s), for an s that parses.
fromisoformat(s) == CHOOSE t \in Instants : isoformat(t) = s

\* ---- utility functions ---------------------------------------------------
\* Variant: reads the key of the other LED.
get_led_state_other(s, key) ==
  LET other == IF key = LED1_STATE_KEY THEN LED2_STATE_KEY ELSE LED1_STATE_KEY
      state == redis_get(s, other)
  IN  IF state # None THEN int(state) ELSE 0

\* _get_led_state(key)
get_led_state(s, key) ==
  LET state == redis_get(s, key) IN IF state # None THEN int(state) ELSE 0

\* Variant: the device still counts as online at exactly the timeout.
get_online_status_inclusive(s, now) ==
  LET last_heartbeat_str == redis_get(s, HEARTBEAT_KEY) IN
  IF last_heartbeat_str = None \/ last_heartbeat_str = ""
  THEN FALSE
  ELSE IF ~parses(last_heartbeat_str)
       THEN FALSE
       ELSE now - fromisoformat(last_heartbeat_str) <= HEARTBEAT_TIMEOUT_SECONDS

\* _get_online_status()
get_online_status(s, now) ==
  LET last_heartbeat_str == redis_get(s, HEARTBEAT_KEY) IN
  IF last_heartbeat_str = None \/ last_heartbeat_str = ""
  THEN FALSE
  ELSE IF ~parses(last_heartbeat_str)
       THEN FALSE
       ELSE LET last_time == fromisoformat(last_heartbeat_str)
                time_difference == now - last_time
            IN  time_difference < HEARTBEAT_TIMEOUT_SECONDS

\* ---- responses -----------------------------------------------------------
\* jsonify of a Python bool / int field.
jbool(b) == IF b THEN "true" ELSE "false"
jint(n) == ToString(n)

NoField == "-"
NoResp == [slot |-> 0, route |-> "none", code |-> 0, led1 |-> NoField, led2 |-> NoField,
           online |-> NoField, reset_wifi |-> NoField, success |-> NoField]
ErrResp(route, code) == [NoResp EXCEPT !.route = route, !.code = code]

\* What a completed start-up leaves in resp: the log line of line 60.
StartUpLogged == [NoResp EXCEPT !.route = "start-up"]

\* The response as sent to the client of slot w.
Reply(w, response) == [response EXCEPT !.slot = w]

\* ---- start-up (module import) -------------------------------------------
\* Lines 52-60 run up to, not including, the n-th of the three keys.
InitOrder == <<LED1_STATE_KEY, LED2_STATE_KEY, RESET_COMMAND_KEY>>

\* Variant: sets the default whether or not the key has a value.
init_key_overwrites(s, key) == redis_set(s, key, Str(0))

\* Variant: leaves an absent key absent.
init_key_skips(s, key) == s

\* One "if r.get(KEY) is None: r.set(KEY, 0)" of lines 53-59.
init_key(s, key) ==
  IF redis_get(s, key) = None THEN redis_set(s, key, Str(0)) ELSE s

RECURSIVE initialize_upto(_, _)
initialize_upto(s, n) ==
  IF n = 0 THEN s ELSE init_key(initialize_upto(s, n - 1), InitOrder[n])

initialize(s) == initialize_upto(s, Len(InitOrder))

LedKeys == {LED1_STATE_KEY, LED2_STATE_KEY}

\* Values of the history variable owed: Nobody, Armed, or the name of a slot.
Nobody == "nobody"
Armed == "armed"
SlotName(w) == ToString(w)

\* An observer records only in the runs that watch for it.
Obs(modes, recorded, old) == IF observe \in modes THEN recorded ELSE old

\* The pair of LED values a store holds, an absent key reading as 0.
LedPair(s) == <<get_led_state(s, LED1_STATE_KEY), get_led_state(s, LED2_STATE_KEY)>>

InitWith(mode) ==
  /\ observe = mode
  /\ store = [k \in Keys |-> None]
  /\ running = FALSE
  /\ r = None
  /\ clock = 0
  /\ pc = [w \in Workers |-> "idle"]
  /\ led1_state = [w \in Workers |-> 0]
  /\ led2_state = [w \in Workers |-> 0]
  /\ reset_command = [w \in Workers |-> None]
  /\ key_to_set = [w \in Workers |-> None]
  /\ new_state = [w \in Workers |-> 0]
  /\ resp = NoResp
  /\ initialized = FALSE
  /\ hbTime = -1
  /\ undelivered = FALSE
  /\ delivered = 0
  /\ seq = TRUE
  /\ owed = Nobody
  /\ settled = [k \in LedKeys |-> -1]
  /\ fresh = [w \in Workers |-> {}]
  /\ seen = [w \in Workers |-> {}]
  /\ wrote = [w \in Workers |-> {}]
  /\ ops = [w \in Workers |-> 0]
  /\ issued = 0

Init == InitWith("none")
InitSnap == InitWith("snap")
InitSeq == InitWith("seq")
InitOwed == InitWith("owed")
InitLed == InitWith("led")

\* ---- the process starts, or restarts -------------------------------------
\* Requests in flight die with the old process.
DropRequests ==
  /\ pc' = [w \in Workers |-> "idle"]
  /\ led1_state' = [w \in Workers |-> 0]
  /\ led2_state' = [w \in Workers |-> 0]
  /\ reset_command' = [w \in Workers |-> None]
  /\ key_to_set' = [w \in Workers |-> None]
  /\ new_state' = [w \in Workers |-> 0]
  /\ owed' = IF owed = Armed THEN Armed ELSE Nobody
  /\ fresh' = [w \in Workers |-> {}]
  /\ seen' = [w \in Workers |-> {}]
  /\ wrote' = [w \in Workers |-> {}]
  /\ ops' = [w \in Workers |-> 0]
  /\ issued' = 0
  /\ UNCHANGED observe

\* Lines 19-42 with the server unreachable: ping raises, r = None, and the
\* block at lines 52-60 is skipped.
BootNoRedis ==
  /\ r' = None
  /\ running' = TRUE
  /\ resp' = NoResp
  /\ DropRequests
  /\ UNCHANGED <<store, clock, initialized, hbTime, undelivered, delivered,
                 seq, settled>>

\* Lines 19-60 with the server reachable throughout.
BootOk ==
  /\ r' = "Redis"
  /\ store' = initialize(store)
  /\ running' = TRUE
  /\ initialized' = TRUE
  /\ resp' = StartUpLogged
  /\ DropRequests
  /\ UNCHANGED <<clock, hbTime, undelivered, delivered, seq, settled>>

\* Lines 19-60 with the server lost after n of the three keys: the exception
\* leaves the module level and the process does not come up.
BootCrash(n) ==
  /\ r' = None
  /\ store' = initialize_upto(store, n)
  /\ running' = FALSE
  /\ resp' = NoResp
  /\ DropRequests
  /\ UNCHANGED <<clock, initialized, hbTime, undelivered, delivered, seq,
                 settled>>

\* ---- a handler ends ------------------------------------------------------
\* The step that ends a handler is the step of its last Redis command, which
\* was answered or raised: that command is counted here.
Leave(w, response) ==
  /\ pc' = [pc EXCEPT ![w] = "idle"]
  /\ resp' = Reply(w, response)
  /\ led1_state' = [led1_state EXCEPT ![w] = 0]
  /\ led2_state' = [led2_state EXCEPT ![w] = 0]
  /\ reset_command' = [reset_command EXCEPT ![w] = None]
  /\ key_to_set' = [key_to_set EXCEPT ![w] = None]
  /\ new_state' = [new_state EXCEPT ![w] = 0]
  /\ fresh' = [fresh EXCEPT ![w] = {}]
  /\ wrote' = [wrote EXCEPT ![w] = {}]
  /\ ops' = [ops EXCEPT ![w] = 0]
  /\ issued' = ops[w] + 1

\* A handler ends in a step that writes no LED key.
Return(w, response) ==
  /\ Leave(w, response)
  /\ seen' = [seen EXCEPT ![w] = {}]

\* Variant: the missing connection is reported as an internal error.
Unavailable_as_500(w, route) ==
  /\ r = None
  /\ resp' = Reply(w, ErrResp(route, 500))
  /\ NoCommand
  /\ UNCHANGED <<progVars, pc, localVars, histVars>>

\* check_redis_status (before_request) answers instead of the handler.
Unavailable(w, route) ==
  /\ r = None
  /\ resp' = Reply(w, ErrResp(route, 503))
  /\ NoCommand
  /\ UNCHANGED <<progVars, pc, localVars, histVars>>

\* A Redis command raises: the handler's except clause answers.
Raise(w, route) ==
  /\ Return(w, ErrResp(route, 500))
  /\ UNCHANGED <<progVars, histGlobal>>

HbPcs == {"hb_set_heartbeat", "hb_get_led1", "hb_get_led2", "hb_get_reset", "hb_clear"}

\* ---- POST /heartbeat: receive_heartbeat ----------------------------------
\* Variant: reset_wifi is never reported.
heartbeat_response_never(l1, l2, rc) ==
  [NoResp EXCEPT !.route = "heartbeat", !.code = 200, !.led1 = jint(l1),
                 !.led2 = jint(l2), !.reset_wifi = jbool(FALSE)]

\* The JSON body of lines 122-126.
heartbeat_response(l1, l2, rc) ==
  [NoResp EXCEPT !.route = "heartbeat", !.code = 200, !.led1 = jint(l1),
                 !.led2 = jint(l2), !.reset_wifi = jbool(rc = "1")]

StartHeartbeat(w) ==
  /\ running
  /\ pc[w] = "idle"
  /\ \/ Unavailable(w, "heartbeat")
     \/ /\ r # None
        /\ pc' = [pc EXCEPT ![w] = "hb_set_heartbeat"]
        /\ resp' = NoResp
        /\ NoCommand
        /\ seq' = Obs({"seq"}, seq /\ \A v \in Workers : pc[v] \notin HbPcs, seq)
        /\ owed' = IF owed = Armed THEN SlotName(w)
                   ELSE IF owed = SlotName(w) THEN Nobody ELSE owed
        /\ fresh' = [fresh EXCEPT ![w] = {k \in LedKeys : settled[k] # -1}]
        /\ seen' = [seen EXCEPT ![w] = Obs({"snap"}, {LedPair(store)}, {})]
        /\ UNCHANGED <<progVars, localVars, observe, initialized, hbTime,
                       undelivered, delivered, settled>>

\* Lines 103-104.
HbSetHeartbeat(w) ==
  /\ pc[w] = "hb_set_heartbeat"
  /\ \/ Raise(w, "heartbeat")
     \/ /\ LET timestamp == isoformat(clock) IN
           store' = redis_set(store, HEARTBEAT_KEY, timestamp)
        /\ hbTime' = clock
        /\ pc' = [pc EXCEPT ![w] = "hb_get_led1"]
        /\ resp' = NoResp
        /\ WriteCommand(w, HEARTBEAT_KEY)
        /\ UNCHANGED <<running, r, clock, localVars, observe, initialized,
                       undelivered, delivered, seq, owed, settled, fresh, seen>>

\* Line 108.
HbGetLed1(w) ==
  /\ pc[w] = "hb_get_led1"
  /\ \/ Raise(w, "heartbeat")
     \/ /\ led1_state' = [led1_state EXCEPT ![w] = get_led_state(store, LED1_STATE_KEY)]
        /\ pc' = [pc EXCEPT ![w] = "hb_get_led2"]
        /\ resp' = NoResp
        /\ Command(w)
        /\ UNCHANGED <<progVars, led2_state, reset_command, key_to_set, new_state,
                       histVars>>

\* Line 109.
HbGetLed2(w) ==
  /\ pc[w] = "hb_get_led2"
  /\ \/ Raise(w, "heartbeat")
     \/ /\ led2_state' = [led2_state EXCEPT ![w] = get_led_state(store, LED2_STATE_KEY)]
        /\ pc' = [pc EXCEPT ![w] = "hb_get_reset"]
        /\ resp' = NoResp
        /\ Command(w)
        /\ UNCHANGED <<progVars, led1_state, reset_command, key_to_set, new_state,
                       histVars>>

\* Variant: the read of the flag clears it in the same Redis command.
HbGetReset_get_and_clear(w) ==
  /\ pc[w] = "hb_get_reset"
  /\ LET rc == redis_get(store, RESET_COMMAND_KEY) IN
       IF rc = "1"
       THEN /\ reset_command' = [reset_command EXCEPT ![w] = rc]
            /\ store' = redis_set(store, RESET_COMMAND_KEY, Str(0))
            /\ pc' = [pc EXCEPT ![w] = "hb_clear"]
            /\ resp' = NoResp
            /\ Command(w)
            /\ UNCHANGED <<led1_state, led2_state, key_to_set, new_state, fresh, seen>>
       ELSE /\ Return(w, heartbeat_response(led1_state[w], led2_state[w], rc))
            /\ UNCHANGED store
  /\ UNCHANGED <<running, r, clock, histGlobal>>

\* Variant: the flag is tested for truth, and the string '0' is true.
HbGetReset_truthy(w) ==
  /\ pc[w] = "hb_get_reset"
  /\ \/ Raise(w, "heartbeat")
     \/ /\ LET rc == redis_get(store, RESET_COMMAND_KEY) IN
           IF rc # None /\ rc # ""
           THEN /\ reset_command' = [reset_command EXCEPT ![w] = rc]
                /\ pc' = [pc EXCEPT ![w] = "hb_clear"]
                /\ resp' = NoResp
                /\ Command(w)
                /\ UNCHANGED <<led1_state, led2_state, key_to_set, new_state, fresh, seen>>
           ELSE Return(w, heartbeat_response(led1_state[w], led2_state[w], rc))
        /\ UNCHANGED <<progVars, histGlobal>>

\* Lines 112-116, and lines 122-126 when the flag read is not '1'.
HbGetReset(w) ==
  /\ pc[w] = "hb_get_reset"
  /\ \/ Raise(w, "heartbeat")
     \/ /\ LET rc == redis_get(store, RESET_COMMAND_KEY) IN
           IF rc = "1"
           THEN /\ reset_command' = [reset_command EXCEPT ![w] = rc]
                /\ pc' = [pc EXCEPT ![w] = "hb_clear"]
                /\ resp' = NoResp
                /\ Command(w)
                /\ UNCHANGED <<led1_state, led2_state, key_to_set, new_state, fresh, seen>>
           ELSE Return(w, heartbeat_response(led1_state[w], led2_state[w], rc))
        /\ UNCHANGED <<progVars, histGlobal>>

\* Variant: the flag is reported but left set.
HbClear_keeps_flag(w) ==
  /\ pc[w] = "hb_clear"
  /\ Return(w, heartbeat_response(led1_state[w], led2_state[w], reset_command[w]))
  /\ undelivered' = Obs({"seq", "owed"}, FALSE, undelivered)
  /\ delivered' = Obs({"seq", "owed"}, IF delivered < NumWorkers THEN delivered + 1
                                       ELSE delivered, delivered)
  /\ UNCHANGED <<progVars, observe, initialized, hbTime, seq, owed, settled>>

\* Line 117, then lines 122-126.
HbClear(w) ==
  /\ pc[w] = "hb_clear"
  /\ \/ Raise(w, "heartbeat")
     \/ /\ store' = redis_set(store, RESET_COMMAND_KEY, Str(0))
        /\ Return(w, heartbeat_response(led1_state[w], led2_state[w], reset_command[w]))
        /\ undelivered' = Obs({"seq", "owed"}, FALSE, undelivered)
        /\ delivered' = Obs({"seq", "owed"}, IF delivered < NumWorkers THEN delivered + 1
                                   ELSE delivered, delivered)
        /\ UNCHANGED <<running, r, clock, observe, initialized, hbTime, seq,
                       owed, settled>>

\* ---- GET /led/status: get_led_status -------------------------------------
\* The JSON body of lines 147-151.
status_response(l1, l2, is_online) ==
  [NoResp EXCEPT !.route = "status", !.code = 200, !.led1 = jbool(l1 = 1),
                 !.led2 = jbool(l2 = 1), !.online = jbool(is_online)]

StartStatus(w) ==
  /\ running
  /\ pc[w] = "idle"
  /\ \/ Unavailable(w, "status")
     \/ /\ r # None
        /\ pc' = [pc EXCEPT ![w] = "st_get_led1"]
        /\ resp' = NoResp
        /\ NoCommand
        /\ fresh' = [fresh EXCEPT ![w] = {k \in LedKeys : settled[k] # -1}]
        /\ seen' = [seen EXCEPT ![w] = Obs({"snap"}, {LedPair(store)}, {})]
        /\ UNCHANGED <<progVars, localVars, histGlobal>>

\* Variant: both LED keys are read with one batched command.
StGetLed1_batched(w) ==
  /\ pc[w] = "st_get_led1"
  /\ \/ Raise(w, "status")
     \/ /\ led1_state' = [led1_state EXCEPT ![w] = get_led_state(store, LED1_STATE_KEY)]
        /\ led2_state' = [led2_state EXCEPT ![w] = get_led_state(store, LED2_STATE_KEY)]
        /\ pc' = [pc EXCEPT ![w] = "st_get_online"]
        /\ resp' = NoResp
        /\ Command(w)
        /\ UNCHANGED <<progVars, reset_command, key_to_set, new_state, histVars>>

\* Line 142.
StGetLed1(w) ==
  /\ pc[w] = "st_get_led1"
  /\ \/ Raise(w, "status")
     \/ /\ led1_state' = [led1_state EXCEPT ![w] = get_led_state(store, LED1_STATE_KEY)]
        /\ pc' = [pc EXCEPT ![w] = "st_get_led2"]
        /\ resp' = NoResp
        /\ Command(w)
        /\ UNCHANGED <<progVars, led2_state, reset_command, key_to_set, new_state,
                       histVars>>

\* Line 143.
StGetLed2(w) ==
  /\ pc[w] = "st_get_led2"
  /\ \/ Raise(w, "status")
     \/ /\ led2_state' = [led2_state EXCEPT ![w] = get_led_state(store, LED2_STATE_KEY)]
        /\ pc' = [pc EXCEPT ![w] = "st_get_online"]
        /\ resp' = NoResp
        /\ Command(w)
        /\ UNCHANGED <<progVars, led1_state, reset_command, key_to_set, new_state,
                       histVars>>

\* Variant: the status read also takes a pending reset flag.
StGetOnline_clears_flag(w) ==
  /\ pc[w] = "st_get_online"
  /\ store' = IF redis_get(store, RESET_COMMAND_KEY) = "1"
               THEN redis_set(store, RESET_COMMAND_KEY, Str(0)) ELSE store
  /\ LET is_online == get_online_status(store, clock) IN
       Return(w, status_response(led1_state[w], led2_state[w], is_online))
  /\ UNCHANGED <<running, r, clock, histGlobal>>

\* Line 144, then lines 147-151.
StGetOnline(w) ==
  /\ pc[w] = "st_get_online"
  /\ \/ Raise(w, "status")
     \/ /\ LET is_online == get_online_status(store, clock) IN
           Return(w, status_response(led1_state[w], led2_state[w], is_online))
        /\ UNCHANGED <<progVars, histGlobal>>

\* ---- POST /led/<action>/<int:numero>: control_led ------------------------
\* The JSON body of line 180.
control_response ==
  [NoResp EXCEPT !.route = "control", !.code = 200, !.success = "true"]

\* Variant: the action is not checked.
valid_control_any_action(action, numero) == numero \in {1, 2}

\* Lines 164-168: the two abort(400) checks.
valid_control(action, numero) == numero \in {1, 2} /\ action \in {"on", "off"}

\* Lines 171-172.
new_state_of(action) == IF action = "on" THEN 1 ELSE 0
key_to_set_of(numero) == IF numero = 1 THEN LED1_STATE_KEY ELSE LED2_STATE_KEY

StartControl(w, action, numero) ==
  /\ running
  /\ pc[w] = "idle"
  /\ \/ Unavailable(w, "control")
     \/ /\ r # None
        /\ ~valid_control(action, numero)
        /\ resp' = Reply(w, ErrResp("control", 400))
        /\ NoCommand
        /\ UNCHANGED <<progVars, pc, localVars, histVars>>
     \/ /\ r # None
        /\ valid_control(action, numero)
        /\ new_state' = [new_state EXCEPT ![w] = new_state_of(action)]
        /\ key_to_set' = [key_to_set EXCEPT ![w] = key_to_set_of(numero)]
        /\ pc' = [pc EXCEPT ![w] = "ctl_set"]
        /\ resp' = NoResp
        /\ NoCommand
        /\ settled' = Obs({"led"}, [settled EXCEPT ![key_to_set_of(numero)] = -1], settled)
        /\ fresh' = [v \in Workers |-> fresh[v] \ {key_to_set_of(numero)}]
        /\ UNCHANGED <<progVars, led1_state, led2_state, reset_command, observe,
                       initialized, hbTime, undelivered, delivered, seq, owed, seen>>

\* Variant: the write goes to both LED keys.
CtlSet_both_leds(w) ==
  /\ pc[w] = "ctl_set"
  /\ store' = [k \in Keys |-> IF k \in LedKeys THEN Str(new_state[w]) ELSE store[k]]
  /\ Leave(w, control_response)
  /\ seen' = [v \in Workers |-> IF seen[v] = {} THEN {}
                                 ELSE seen[v] \cup {LedPair(store')}]
  /\ UNCHANGED <<running, r, clock, histGlobal>>

\* Lines 176-180.
CtlSet(w) ==
  /\ pc[w] = "ctl_set"
  /\ \/ Raise(w, "control")
     \/ /\ store' = redis_set(store, key_to_set[w], Str(new_state[w]))
        /\ Leave(w, control_response)
        /\ seen' = [v \in Workers |-> IF seen[v] = {} THEN {}
                                       ELSE seen[v] \cup {LedPair(store')}]
        /\ settled' = Obs({"led"}, [settled EXCEPT ![key_to_set[w]] =
                                     IF \E v \in Workers \ {w} :
                                          /\ pc[v] = "ctl_set"
                                          /\ key_to_set[v] = key_to_set[w]
                                     THEN -1 ELSE new_state[w]], settled)
        /\ UNCHANGED <<running, r, clock, observe, initialized, hbTime,
                       undelivered, delivered, seq, owed>>

\* ---- POST /credentials/reset: reset_credentials --------------------------
\* The JSON body of lines 197-200.
reset_response ==
  [NoResp EXCEPT !.route = "reset", !.code = 200, !.success = "true"]

StartReset(w) ==
  /\ running
  /\ pc[w] = "idle"
  /\ \/ Unavailable(w, "reset")
     \/ /\ r # None
        /\ pc' = [pc EXCEPT ![w] = "rs_set"]
        /\ resp' = NoResp
        /\ NoCommand
        /\ UNCHANGED <<progVars, localVars, histVars>>

\* Variant: the flag is written and the request then fails.
RsSet_fails_after_write(w) ==
  /\ pc[w] = "rs_set"
  /\ store' = redis_set(store, RESET_COMMAND_KEY, Str(1))
  /\ Return(w, ErrResp("reset", 500))
  /\ UNCHANGED <<running, r, clock, histGlobal>>

\* Lines 195-200.
RsSet(w) ==
  /\ pc[w] = "rs_set"
  /\ \/ Raise(w, "reset")
     \/ /\ store' = redis_set(store, RESET_COMMAND_KEY, Str(1))
        /\ Return(w, reset_response)
        /\ seq' = Obs({"seq"}, seq /\ ~undelivered, seq)
        /\ undelivered' = Obs({"seq", "owed"}, TRUE, undelivered)
        /\ delivered' = Obs({"seq", "owed"}, 0, delivered)
        /\ owed' = Obs({"owed"}, Armed, owed)
        /\ UNCHANGED <<running, r, clock, observe, initialized, hbTime, settled>>

\* ---- the environment -----------------------------------------------------
\* Time passes.
Tick(d) ==
  /\ clock + d <= MaxTime
  /\ clock' = clock + d
  /\ resp' = NoResp
  /\ NoCommand
  /\ UNCHANGED <<store, running, r, pc, localVars, histVars>>

Next ==
  \/ BootNoRedis
  \/ BootOk
  \/ \E n \in 0..(Len(InitOrder) - 1) : BootCrash(n)
  \/ \E w \in Workers : StartHeartbeat(w)
  \/ \E w \in Workers : HbSetHeartbeat(w)
  \/ \E w \in Workers : HbGetLed1(w)
  \/ \E w \in Workers : HbGetLed2(w)
  \/ \E w \in Workers : HbGetReset(w)
  \/ \E w \in Workers : HbClear(w)
  \/ \E w \in Workers : StartStatus(w)
  \/ \E w \in Workers : StGetLed1(w)
  \/ \E w \in Workers : StGetLed2(w)
  \/ \E w \in Workers : StGetOnline(w)
  \/ \E w \in Workers, action \in Actions, numero \in Numeros :
       StartControl(w, action, numero)
  \/ \E w \in Workers : CtlSet(w)
  \/ \E w \in Workers : StartReset(w)
  \/ \E w \in Workers : RsSet(w)
  \/ \E d \in Deltas : Tick(d)

\* The program, with no observer beyond initialized and hbTime.
Spec == Init /\ [][Next]_vars

\* The program watched for the delivery of the reset flag.
SpecSeq == InitSeq /\ [][Next]_vars

\* The program watched for the heartbeat that follows an arm.
SpecOwed == InitOwed /\ [][Next]_vars

\* The program watched for LED values that are settled.
SpecLed == InitLed /\ [][Next]_vars

\* The program watched for the LED pairs the store holds during a request.
SpecSnap == InitSnap /\ [][Next]_vars

TypeOK ==
  /\ \A k \in LedKeys \cup {RESET_COMMAND_KEY} : store[k] \in {None, "0", "1"}
  /\ clock \in 0..MaxTime

\* ==== properties ==========================================================
\* The step just taken sent slot w a 200 response of the route.
Returns(w, route) ==
  /\ resp'.slot = w
  /\ resp'.route = route
  /\ resp'.code = 200

\* C1: with heartbeats handled one at a time and no arm written over an arm
\* that is still pending (seq), a heartbeat answers reset_wifi = true exactly
\* when an arm was written and no heartbeat has answered true since: the
\* first heartbeat after an arm gets true, every later one false until the
\* next arm.
C1_DeliveredExactlyOnce ==
  [][\A w \in Workers :
       (seq /\ Returns(w, "heartbeat")) => resp'.reset_wifi = jbool(undelivered)]_vars

\* C1 witness: under the discipline, the arm was delivered once and a later
\* heartbeat has just been answered reset_wifi = false.
C1_Witness ==
  /\ seq
  /\ delivered = 1
  /\ ~undelivered
  /\ resp.route = "heartbeat"
  /\ resp.code = 200
  /\ resp.reset_wifi = "false"

\* C2: the read of the flag (line 112) does not clear it: the step that reads
\* '1' leaves the store as it was and only moves the handler to the clear of
\* line 117, so until that later step any other heartbeat reads '1' as well.
C2_ReadDoesNotClear ==
  [][\A w \in Workers :
       (pc[w] = "hb_get_reset" /\ pc'[w] = "hb_clear")
         => /\ store' = store
            /\ store[RESET_COMMAND_KEY] = "1"
            /\ reset_command'[w] = "1"]_vars

\* C2 witness: two heartbeats have been answered reset_wifi = true and no arm
\* was written between the two answers.
C2_Witness ==
  /\ delivered = 2
  /\ resp.route = "heartbeat"
  /\ resp.code = 200
  /\ resp.reset_wifi = "true"

\* C3: a status response reports online = true exactly when a heartbeat was
\* recorded and fewer than HEARTBEAT_TIMEOUT_SECONDS have passed since.
C3_OnlineIffRecent ==
  [][\A w \in Workers :
       Returns(w, "status")
         => resp'.online =
              jbool(hbTime # -1 /\ clock - hbTime < HEARTBEAT_TIMEOUT_SECONDS)]_vars

\* C3 witness: a status response reports offline at or after the timeout of a
\* recorded heartbeat.
C3_Witness ==
  /\ resp.route = "status"
  /\ resp.code = 200
  /\ resp.online = "false"
  /\ hbTime # -1
  /\ clock - hbTime >= HEARTBEAT_TIMEOUT_SECONDS

\* The LED field of a response, for the LED key k.
LedField(response, k) == IF k = LED1_STATE_KEY THEN response.led1 ELSE response.led2

\* How a route renders the LED value v.
Rendered(route, v) == IF route = "status" THEN jbool(v = 1) ELSE jint(v)

\* C4: a status or heartbeat request that starts after a control request of
\* an LED returned success, with no other control request of that LED in
\* flight at that write or started since, reports the value written; and a
\* control request answers success only in the step that writes the store.
C4_ReadAfterWrite ==
  [][\A w \in Workers :
       /\ \A route \in {"status", "heartbeat"} :
            Returns(w, route)
              => \A k \in fresh[w] : LedField(resp', k) = Rendered(route, settled[k])
       /\ Returns(w, "control")
            => /\ pc[w] = "ctl_set"
               /\ store'[key_to_set[w]] = Str(new_state[w])]_vars

\* C4 witness: a status request that started after LED 1 was switched on,
\* with no control of LED 1 since, has read LED 1 as on.
C4_Witness ==
  \E w \in Workers :
    /\ pc[w] = "st_get_online"
    /\ LED1_STATE_KEY \in fresh[w]
    /\ settled[LED1_STATE_KEY] = 1
    /\ led1_state[w] = 1

\* The inputs control_led rejects.
Rejected(action, numero) == numero \notin {1, 2} \/ action \notin {"on", "off"}

\* C5 as stated: every rejected control request is answered 400 and changes
\* no key.
C5_InvalidIs400 ==
  [][\A w \in Workers, action \in Actions, numero \in Numeros :
       (StartControl(w, action, numero) /\ Rejected(action, numero))
         => (resp'.code = 400 /\ store' = store)]_vars

\* C5 amended: a rejected control request is answered 400 when the process
\* holds a Redis connection and 503 when it does not; either way it changes
\* no key and starts no handler.
C5_InvalidMutatesNothing ==
  [][\A w \in Workers, action \in Actions, numero \in Numeros :
       (StartControl(w, action, numero) /\ Rejected(action, numero))
         => /\ resp'.slot = w
            /\ resp'.code = IF r = None THEN 503 ELSE 400
            /\ store' = store
            /\ pc' = pc]_vars

\* C5 witness: a control request has just been answered 400.
C5_Witness ==
  /\ resp.route = "control"
  /\ resp.code = 400
  /\ r # None

\* C6 as stated: whenever the store cannot be used, for lack of a connection
\* made at start-up or because a Redis command of the handler raised, the
\* response is 503.
C6_StoreFailureIs503 ==
  [][\A w \in Workers :
       (resp'.slot = w /\ (r = None \/ (pc[w] # "idle" /\ resp'.code # 200)))
         => resp'.code = 503]_vars

\* C6 amended: a request that arrives when no connection was made at start-up
\* is answered 503 on every route and touches nothing; a request whose Redis
\* command raises is answered 500.
C6_StartFailure503RequestFailure500 ==
  [][\A w \in Workers :
       /\ (resp'.slot = w /\ r = None)
            => (resp'.code = 503 /\ store' = store /\ pc' = pc)
       /\ (resp'.slot = w /\ pc[w] # "idle" /\ resp'.code # 200)
            => resp'.code = 500]_vars

\* C6 witness: a request has just been answered 500.
C6_Witness ==
  /\ resp.slot \in Workers
  /\ resp.code = 500

\* C7: no step of a status request changes the store.
C7_StatusReadOnly ==
  [][\A w \in Workers :
       (StartStatus(w) \/ StGetLed1(w) \/ StGetLed2(w) \/ StGetOnline(w))
         => store' = store]_vars

\* C7 witness: a status request has just been answered while the reset flag
\* is pending.
C7_Witness ==
  /\ resp.route = "status"
  /\ resp.code = 200
  /\ store[RESET_COMMAND_KEY] = "1"

\* C8: once a start-up has completed, both LED keys hold "0" or "1", and
\* every 200 response of status or heartbeat reports each LED as on or off.
C8_LedStatesPresent ==
  initialized
    => /\ \A k \in LedKeys : store[k] \in {"0", "1"}
       /\ (resp.route = "status" /\ resp.code = 200)
            => (resp.led1 \in {"true", "false"} /\ resp.led2 \in {"true", "false"})
       /\ (resp.route = "heartbeat" /\ resp.code = 200)
            => (resp.led1 \in {"0", "1"} /\ resp.led2 \in {"0", "1"})

\* C8 witness: after a completed start-up a heartbeat is told LED 1 is on.
C8_Witness ==
  /\ initialized
  /\ resp.route = "heartbeat"
  /\ resp.code = 200
  /\ resp.led1 = "1"

\* Any of the ways a start-up can go.
Boot == BootOk \/ BootNoRedis \/ \E n \in 0..(Len(InitOrder) - 1) : BootCrash(n)

\* C9: a start-up changes no key that has a value, and a completed start-up
\* leaves a store that a further start-up would leave as it is.
C9_StartKeepsValues ==
  [][Boot => /\ \A k \in Keys : store[k] # None => store'[k] = store[k]
             /\ BootOk => initialize(store') = store']_vars

\* C9 witness: a start-up has just completed over a store in which LED 1 was
\* on and the reset flag armed, and both still are.
C9_Witness ==
  /\ resp = StartUpLogged
  /\ store[LED1_STATE_KEY] = "1"
  /\ store[RESET_COMMAND_KEY] = "1"

Answers(w, route, code) ==
  /\ resp'.slot = w
  /\ resp'.route = route
  /\ resp'.code = code

Routes == {"heartbeat", "status", "control", "reset"}

\* The most Redis commands a handler of the route sends before it answers.
MostCommands(route) ==
  CASE route = "heartbeat" -> 5 [] route = "status" -> 3
    [] route = "control" -> 1 [] route = "reset" -> 1

\* C11 as stated: a request of any route has sent at most one Redis command
\* when it is answered.
C11_AtMostOneRoundTrip ==
  [][resp'.slot \in Workers => issued' <= 1]_vars

\* C11 amended: a control or reset request answered 200 has sent exactly one
\* Redis command; a status request answered 200 exactly three; a heartbeat
\* answered 200 four, and five when it reports reset_wifi = true; a request
\* answered 500 between one and the most of its route; a request answered 503
\* or 400 none.
C11_CommandsPerRoute ==
  [][\A w \in Workers :
       /\ (Answers(w, "control", 200) \/ Answers(w, "reset", 200)) => issued' = 1
       /\ Answers(w, "status", 200) => issued' = 3
       /\ Answers(w, "heartbeat", 200)
            => issued' = IF resp'.reset_wifi = "true" THEN 5 ELSE 4
       /\ \A route \in Routes :
            /\ Answers(w, route, 500) => issued' \in 1..MostCommands(route)
            /\ (Answers(w, route, 503) \/ Answers(w, route, 400)) => issued' = 0]_vars

\* C11 witness: a heartbeat has just been answered reset_wifi = true after
\* five Redis commands.
C11_Witness ==
  /\ resp.route = "heartbeat"
  /\ resp.code = 200
  /\ resp.reset_wifi = "true"
  /\ issued = 5

\* C12: the LED pair of a 200 response of status or heartbeat is a pair the
\* store held at one instant between the start of the request and its answer.
C12_ConsistentSnapshot ==
  [][\A w \in Workers : \A route \in {"status", "heartbeat"} :
       Returns(w, route)
         => \E pair \in seen[w] :
              /\ resp'.led1 = Rendered(route, pair[1])
              /\ resp'.led2 = Rendered(route, pair[2])]_vars

\* C13: a control request that is accepted takes the key of its LED and 1 for
\* on, 0 for off, and changes no key before its write; the step that answers
\* it 200 stores that value under that key and leaves the other three keys as
\* they were; the step that answers a reset request 200 stores 1 under
\* reset_command and leaves the other three keys as they were.
C13_OverwritesOneKey ==
  [][\A w \in Workers :
       /\ \A action \in Actions, numero \in Numeros :
            (StartControl(w, action, numero) /\ pc'[w] = "ctl_set")
              => /\ \/ numero = 1 /\ key_to_set'[w] = LED1_STATE_KEY
                    \/ numero = 2 /\ key_to_set'[w] = LED2_STATE_KEY
                 /\ \/ action = "on" /\ new_state'[w] = 1
                    \/ action = "off" /\ new_state'[w] = 0
                 /\ store' = store
       /\ (pc[w] = "ctl_set" /\ pc'[w] = "ctl_set")
            => (key_to_set'[w] = key_to_set[w] /\ new_state'[w] = new_state[w])
       /\ Returns(w, "control")
            => /\ pc[w] = "ctl_set"
               /\ store'[key_to_set[w]] = IF new_state[w] = 1 THEN "1" ELSE "0"
               /\ \A k \in Keys \ {key_to_set[w]} : store'[k] = store[k]
       /\ Returns(w, "reset")
            => /\ store'[RESET_COMMAND_KEY] = "1"
               /\ \A k \in Keys \ {RESET_COMMAND_KEY} : store'[k] = store[k]]_vars

\* C13 witness: a control request has just switched LED 1 on in a store where
\* LED 2 is off, a heartbeat is recorded and the reset flag is armed.
C13_Witness ==
  /\ resp.route = "control"
  /\ resp.code = 200
  /\ store[LED1_STATE_KEY] = "1"
  /\ store[LED2_STATE_KEY] = "0"
  /\ store[HEARTBEAT_KEY] # None
  /\ store[RESET_COMMAND_KEY] = "1"

\* C14: outside start-up, a step that turns reset_command into 0 is the step
\* of a heartbeat that read 1 at line 112 and is answered reset_wifi = true in
\* that step; a heartbeat reaches the write of line 117 only from a read of 1;
\* a heartbeat that reads anything else ends at that read and changes no key;
\* and a heartbeat answered reset_wifi = false changes no key in that step.
C14_ClearedOnlyOnDelivery ==
  [][\A w \in Workers :
       /\ (~Boot /\ store'[RESET_COMMAND_KEY] = "0" /\ store[RESET_COMMAND_KEY] # "0")
            => \E v \in Workers :
                 /\ pc[v] = "hb_clear"
                 /\ reset_command[v] = "1"
                 /\ Answers(v, "heartbeat", 200)
                 /\ resp'.reset_wifi = "true"
       /\ (pc[w] # "hb_clear" /\ pc'[w] = "hb_clear")
            => /\ pc[w] = "hb_get_reset"
               /\ store[RESET_COMMAND_KEY] = "1"
               /\ reset_command'[w] = "1"
       /\ (pc[w] = "hb_clear" /\ pc'[w] = "hb_clear") => reset_command'[w] = "1"
       /\ (pc[w] = "hb_get_reset" /\ pc'[w] # pc[w] /\ store[RESET_COMMAND_KEY] # "1")
            => (pc'[w] = "idle" /\ store' = store)
       /\ Returns(w, "heartbeat")
            => IF resp'.reset_wifi = "true"
               THEN pc[w] = "hb_clear" /\ store'[RESET_COMMAND_KEY] = "0"
               ELSE pc[w] = "hb_get_reset" /\ store' = store]_vars

\* C14 witness: a heartbeat has just been answered reset_wifi = true and the
\* flag reads 0.
C14_Witness ==
  /\ resp.route = "heartbeat"
  /\ resp.code = 200
  /\ resp.reset_wifi = "true"
  /\ issued = 5
  /\ store[RESET_COMMAND_KEY] = "0"
  /\ store[HEARTBEAT_KEY] # None

\* C15 as stated: a request answered with an error has written no key, in the
\* answering step or before it.
C15_ErrorLeavesStoreUnchanged ==
  [][\A w \in Workers :
       (resp'.slot = w /\ resp'.code # 200) => (store' = store /\ wrote[w] = {})]_vars

\* C15 amended: the step that answers an error changes no key; a heartbeat
\* answered 500 after its first command has written last_heartbeat and no
\* other key; every other request answered with an error has written no key.
\* A step that writes a key and goes on is the write of last_heartbeat with
\* the current time, and outside start-up a key changes only in such a step or
\* in a step that answers 200.
C15_ErrorKeepsAllButHeartbeat ==
  [][\A w \in Workers :
       /\ (resp'.slot = w /\ resp'.code # 200)
            => /\ store' = store
               /\ wrote[w] = IF Answers(w, "heartbeat", 500) /\ issued' > 1
                             THEN {HEARTBEAT_KEY} ELSE {}
       /\ (wrote'[w] # wrote[w] /\ pc'[w] # "idle")
            => /\ wrote'[w] = {HEARTBEAT_KEY}
               /\ store' = [store EXCEPT ![HEARTBEAT_KEY] = isoformat(clock)]
       /\ (~Boot /\ store' # store)
            => \E v \in Workers :
                 \/ wrote'[v] # wrote[v] /\ pc'[v] # "idle"
                 \/ resp'.slot = v /\ resp'.code = 200]_vars

\* C15 witness: a heartbeat has just been answered 500 at its fifth command,
\* the clear of the flag: its timestamp is in the store and the flag still armed.
C15_Witness ==
  /\ resp.route = "heartbeat"
  /\ resp.code = 500
  /\ issued = 5
  /\ store[HEARTBEAT_KEY] = isoformat(clock)
  /\ store[RESET_COMMAND_KEY] = "1"

====
